---- MODULE Spec2Model ----
(***************************************************************************)
(* Model of src/app.py (Parcelator): the multi-payer SAC amortization      *)
(* simulation (update_saldo, calculate_individual_sac_tables, the          *)
(* last-payment summary of main) and the Streamlit script run of main that *)
(* keeps the payer ledger in the session state.                            *)
(*                                                                         *)
(* Numbers.  A Python float (IEEE double) is modelled by the rational       *)
(* <<n, d>> in lowest terms it holds, d a power of two; NaN is <<0, 0>>.   *)
(* On the values of this model (|n|, d < 2^31) sums, differences and       *)
(* products of doubles are exact, so the float operation and the rational  *)
(* one give the same double.  A quotient is a double only when its         *)
(* denominator is a power of two: elsewhere the code computes a rounded    *)
(* double that this representation does not hold, and QDiv is not defined. *)
(* The specification of the simulation follows the calls on which every    *)
(* division is exact (ExactInputs); in the session a call with a rounding  *)
(* division happens and leaves tables the model does not hold (Rounded).   *)
(***************************************************************************)
EXTENDS Integers, Sequences, FiniteSets, TLC

VARIABLES
    saldo_total,        \* st.session_state.saldo_total
    saldos_devedores,   \* the payer ledger: sequence of Payer records
    taxa_juros_anual,   \* annual rate in percent (a rational)
    prazo_meses,        \* term in months (an integer, any sign)
    aportes,            \* the extra-payment schedule: sequence of Aporte records
    resultados,         \* outcome of the last call of calculate_individual_sac_tables
    resumo,             \* outcome of the last-payment summary of main (lines 208-233)
    prev_resultados,    \* outcome of the call before the last AddAporte
    pc,                 \* position of the run
    widget_saldo,       \* value held by the number_input "Saldo Devedor Total"
    editor_rows,        \* rows held by the data_editor "entradas_changes", or NoEdit
    aportes_rows,       \* rows held by the data_editor "aportes_changes", or NoEdit
    in_session          \* "saldos_devedores" in st.session_state

vars == <<saldo_total, saldos_devedores, taxa_juros_anual, prazo_meses, aportes,
          resultados, resumo, prev_resultados, pc, widget_saldo, editor_rows,
          aportes_rows, in_session>>

----------------------------------------------------------------------------
(* Bounds of the model *)

MaxTerm == 3
MaxAportes == 1
MaxPayers == 2

----------------------------------------------------------------------------
(* Float arithmetic *)

NaN == <<0, 0>>

isnan(v) == v[2] = 0

Abs(i) == IF i < 0 THEN -i ELSE i

RECURSIVE GCD(_, _)
GCD(a, b) == IF b = 0 THEN a ELSE GCD(b, a % b)

QNorm(n, d) ==
    IF d = 0 THEN NaN
    ELSE LET g == GCD(Abs(n), Abs(d))
             s == IF d < 0 THEN -1 ELSE 1
         IN  <<(s * n) \div g, (s * d) \div g>>

QInt(i) == <<i, 1>>

QSub(a, b) == QNorm(a[1] * b[2] - b[1] * a[2], a[2] * b[2])

QAdd(a, b) == QNorm(a[1] * b[2] + b[1] * a[2], a[2] * b[2])

QMul(a, b) == QNorm(a[1] * b[1], a[2] * b[2])

RECURSIVE IsPow2(_)
IsPow2(d) == d = 1 \/ (d > 1 /\ d % 2 = 0 /\ IsPow2(d \div 2))

\* the rational is a double (within the magnitudes of the model)
Exact(q) == IsPow2(q[2])

\* the quotient of the reals a and b
Quotient(a, b) == QNorm(a[1] * b[2], a[2] * b[1])

\* a / b is computed without rounding (and b # 0)
ExactDiv(a, b) == Exact(Quotient(a, b))

\* a / b where the division is exact.  Not defined where the code rounds the
\* quotient, nor for b = 0 (Python raises ZeroDivisionError: see the callers).
QDiv(a, b) == CHOOSE q \in {Quotient(a, b)} : Exact(q)

QLt0(a) == a[1] < 0

QGt0(a) == a[1] > 0

QLe(a, b) == ~isnan(a) /\ ~isnan(b) /\ a[1] * b[2] <= b[1] * a[2]

----------------------------------------------------------------------------
(* Payer and Aporte (lines 13-22) *)

Payer(name, entrada, saldo) ==
    [payer |-> name, entrada |-> entrada, saldo_devedor |-> saldo]

Aporte(mes, pagador, valor) == [mes |-> mes, pagador |-> pagador, valor |-> valor]

----------------------------------------------------------------------------
(* update_saldo (lines 97-103).  The division by len(payers) is inside the *)
(* loop, so an empty list returns an empty ledger and nothing is raised.   *)

update_saldo(payers, total) ==
    [i \in 1..Len(payers) |->
        Payer(payers[i].payer, payers[i].entrada,
              QSub(QDiv(total, QInt(Len(payers))), payers[i].entrada))]

----------------------------------------------------------------------------
(* calculate_individual_sac_tables (lines 41-94) *)

\* line 44
taxa_juros_mensal(taxa_anual) == QDiv(QDiv(taxa_anual, QInt(100)), QInt(12))

\* the payer test of line 58 left out
aportes_mes_any_payer(schedule, mes, p) ==
    SelectSeq(schedule, LAMBDA a : a.mes = mes)

\* line 58
aportes_mes(schedule, mes, p) ==
    SelectSeq(schedule, LAMBDA a : a.mes = mes /\ p.payer = a.pagador)

\* the amount added to the balance instead of subtracted
RECURSIVE apply_aportes_add(_, _)
apply_aportes_add(saldo, as) ==
    IF as = <<>> THEN saldo
    ELSE apply_aportes_add(
             IF ~isnan(Head(as).valor) THEN QAdd(saldo, Head(as).valor) ELSE saldo,
             Tail(as))

\* lines 59-61
RECURSIVE apply_aportes(_, _)
apply_aportes(saldo, as) ==
    IF as = <<>> THEN saldo
    ELSE apply_aportes(
             IF ~isnan(Head(as).valor) THEN QSub(saldo, Head(as).valor) ELSE saldo,
             Tail(as))

\* line 56 left out: the amortization is never subtracted
saldo_antes_clamp_no_amort(saldo_atual, amortizacao_mensal, schedule, mes, p) ==
    apply_aportes(saldo_atual, aportes_mes(schedule, mes, p))

\* lines 56-61: the balance of the month before the clamp
saldo_antes_clamp(saldo_atual, amortizacao_mensal, schedule, mes, p) ==
    apply_aportes(QSub(saldo_atual, amortizacao_mensal), aportes_mes(schedule, mes, p))

\* lines 63-64
clamp(saldo) == IF QLt0(saldo) THEN QInt(0) ELSE saldo

\* lines 70-72: (data_inicio_pagamento + relativedelta(months=mes)).strftime("%Y-%m")
mes_label(inicio, mes) ==
    LET k == inicio.year * 12 + (inicio.month - 1) + mes
    IN  [year |-> k \div 12, month |-> (k % 12) + 1]

\* the interest taken after line 56 instead of before it
juros_after_amortization(saldo_atual, amortizacao_mensal, taxa_mensal) ==
    QMul(QSub(saldo_atual, amortizacao_mensal), taxa_mensal)

\* line 54
juros(saldo_atual, amortizacao_mensal, taxa_mensal) == QMul(saldo_atual, taxa_mensal)

\* lines 54-78: one iteration of the month loop, as the appended row
linha(p, mes, inicio, saldo_atual, amortizacao_mensal, taxa_mensal, schedule) ==
    LET juros_mes == juros(saldo_atual, amortizacao_mensal, taxa_mensal)
    IN  [Pagador     |-> p.payer,
         Mes_i       |-> mes,
         Mes         |-> mes_label(inicio, mes),
         SaldoDevedor |-> clamp(saldo_antes_clamp(saldo_atual, amortizacao_mensal,
                                                  schedule, mes, p)),
         Amortizacao |-> amortizacao_mensal,
         Juros       |-> juros_mes,
         Prestacao   |-> QAdd(amortizacao_mensal, juros_mes)]

\* lines 52-78: the months lo..hi of the loop, from the balance and the rows
\* the months before lo left in st.  A range of more than one month is its
\* first half, evaluated first (it always adds rows), followed by its second
\* half, so that the months of a term of 120 are not nested 120 deep.
\* range(1, prazo + 1) is empty for prazo <= 0.
RECURSIVE month_loop(_, _, _, _, _, _, _, _)
month_loop(p, lo, hi, inicio, amortizacao_mensal, taxa_mensal, schedule, st) ==
    IF lo > hi THEN st
    ELSE IF lo = hi
    THEN LET r == linha(p, lo, inicio, st.saldo_atual, amortizacao_mensal,
                        taxa_mensal, schedule)
         IN  [saldo_atual |-> r.SaldoDevedor, dados |-> Append(st.dados, r)]
    ELSE LET mid == (lo + hi) \div 2
             half == month_loop(p, lo, mid, inicio, amortizacao_mensal,
                                taxa_mensal, schedule, st)
         IN  IF Len(half.dados) = Len(st.dados) THEN half
             ELSE month_loop(p, mid + 1, hi, inicio, amortizacao_mensal,
                             taxa_mensal, schedule, half)

\* lines 48-91: the table of one payer.  Line 48 raises ZeroDivisionError
\* for prazo = 0.
tabela(p, taxa_anual, prazo, schedule, inicio) ==
    IF prazo = 0 THEN [status |-> "ZeroDivisionError", rows |-> <<>>]
    ELSE [status |-> "ok",
          rows |-> month_loop(p, 1, prazo, inicio,
                              QDiv(p.saldo_devedor, QInt(prazo)),
                              taxa_juros_mensal(taxa_anual), schedule,
                              [saldo_atual |-> p.saldo_devedor, dados |-> <<>>]).dados]

\* The last position of the ledger that holds the name: resultados[p.payer] = df
\* (line 92) overwrites the table of an earlier payer of the same name.
last_index(ledger, name) ==
    CHOOSE i \in 1..Len(ledger) :
        /\ ledger[i].payer = name
        /\ \A j \in (i + 1)..Len(ledger) : ledger[j].payer # name

\* lines 41-94.  The error of the first payer's table ends the call: nothing
\* is returned.
calculate_individual_sac_tables(ledger, taxa_anual, prazo, schedule, inicio) ==
    IF \E i \in 1..Len(ledger) :
          tabela(ledger[i], taxa_anual, prazo, schedule, inicio).status # "ok"
    THEN [status |-> "ZeroDivisionError", tables |-> <<>>]
    ELSE [status |-> "ok",
          tables |-> [name \in {ledger[i].payer : i \in 1..Len(ledger)} |->
                         tabela(ledger[last_index(ledger, name)], taxa_anual,
                                prazo, schedule, inicio).rows]]

\* lines 44 and 48 of a call: no quotient is rounded
ExactCall(payers, taxa_anual, prazo) ==
    /\ ExactDiv(taxa_anual, QInt(100))
    /\ ExactDiv(Quotient(taxa_anual, QInt(100)), QInt(12))
    /\ prazo # 0 => \A i \in 1..Len(payers) :
                       ExactDiv(payers[i].saldo_devedor, QInt(prazo))

\* line 100: the quotient is not rounded
ExactSplit(payers, total) ==
    payers # <<>> => ExactDiv(total, QInt(Len(payers)))

\* Every division of update_saldo (line 100) and of the engine (lines 44, 48)
\* on these inputs is exact.
ExactInputs(payers, total, taxa_anual, prazo) ==
    /\ ExactSplit(payers, total)
    /\ ExactCall(update_saldo(payers, total), taxa_anual, prazo)

----------------------------------------------------------------------------
(* The tail of main (lines 208-233): the last payment of each payer *)

NotRun == [status |-> "not_run"]

\* the tables of a call whose divisions round: doubles the model does not hold
Rounded == [status |-> "rounded"]

\* A data_editor holds the edits made of the frame (and column options) it
\* was given, base, as the rows it returns.  NoEdit: it holds no edit and
\* returns the frame it is given.
NoEdit == [edited |-> FALSE, base |-> <<>>, rows |-> <<>>]

\* ss.data_inicio_pagamento (lines 140-142), as year and month
data_inicio_pagamento == [year |-> 2026, month |-> 10]

\* line 225: df[df["Saldo Devedor"] > 0]["Mês_i"].max(); the maximum of an
\* empty selection is NaN
last_non_zero_month(rows) ==
    LET pos == {i \in 1..Len(rows) : QGt0(rows[i].SaldoDevedor)}
    IN  IF pos = {} THEN NaN
        ELSE QInt(rows[CHOOSE i \in pos : \A j \in pos : rows[j].Mes_i <= rows[i].Mes_i].Mes_i)

\* lines 208-233.  pd.concat of no tables raises ValueError (line 209), and
\* relativedelta(months=NaN) raises ValueError (line 230): the run ends there.
ultimo_pagamento(res, inicio) ==
    IF res.status # "ok" THEN NotRun
    ELSE IF DOMAIN res.tables = {} THEN [status |-> "ValueError", line |-> 209]
    ELSE LET ultimo == [name \in DOMAIN res.tables |-> last_non_zero_month(res.tables[name])]
         IN  IF \E name \in DOMAIN ultimo : isnan(ultimo[name])
             THEN [status |-> "ValueError", line |-> 230, ultimo |-> ultimo]
             ELSE [status |-> "ok", ultimo |-> ultimo,
                   data |-> [name \in DOMAIN ultimo |-> mes_label(inicio, ultimo[name][1])]]

----------------------------------------------------------------------------
(* Specification of the simulation: the arguments are drawn in Init,          *)
(* SplitBalance is the call of update_saldo of lines 126-128, Simulate the     *)
(* call of the engine and the summary that follows it (lines 201-233), and    *)
(* AddAporte the storing of a schedule with one more extra payment (lines     *)
(* 194-198), after which the script runs again from the top.                  *)

PayerNames == {"P1", "P2"}

Entradas == {QInt(6), QInt(15)}

Totals == {QInt(24)}

\* 75 / 100 / 12 is the double 0.0625
Taxas == {QInt(75)}

Valores == {QInt(2), QInt(-1), NaN}

PayerInputs == {Payer(n, e, QInt(0)) : n \in PayerNames, e \in Entradas}

LedgerInputs == UNION {[1..n -> PayerInputs] : n \in 0..MaxPayers}

AporteInputs ==
    {Aporte(m, n, v) : m \in 1..MaxTerm, n \in PayerNames, v \in Valores}

EngineInit ==
    /\ saldo_total \in Totals
    /\ saldos_devedores \in LedgerInputs
    /\ taxa_juros_anual \in Taxas
    /\ prazo_meses \in (0 - 1)..MaxTerm
    /\ ExactInputs(saldos_devedores, saldo_total, taxa_juros_anual, prazo_meses)
    /\ aportes = <<>>
    /\ resultados = NotRun
    /\ resumo = NotRun
    /\ prev_resultados = NotRun
    /\ pc = "input"
    /\ widget_saldo = saldo_total
    /\ editor_rows = NoEdit
    /\ aportes_rows = NoEdit
    /\ in_session = TRUE

SplitBalance ==
    /\ pc = "input"
    /\ saldos_devedores' = update_saldo(saldos_devedores, saldo_total)
    /\ pc' = "split"
    /\ UNCHANGED <<saldo_total, taxa_juros_anual, prazo_meses, aportes, resultados,
                   resumo, prev_resultados, widget_saldo, editor_rows, aportes_rows,
                   in_session>>

\* lines 201-233 for the schedule s
Run(s) ==
    LET res == calculate_individual_sac_tables(saldos_devedores, taxa_juros_anual,
                                                prazo_meses, s, data_inicio_pagamento)
    IN  /\ resultados' = res
        /\ resumo' = ultimo_pagamento(res, data_inicio_pagamento)

Simulate ==
    /\ pc = "split"
    /\ Run(aportes)
    /\ pc' = "done"
    /\ UNCHANGED <<saldo_total, saldos_devedores, taxa_juros_anual, prazo_meses,
                   aportes, prev_resultados, widget_saldo, editor_rows, aportes_rows,
                   in_session>>

\* lines 194-198: the editor returned the schedule with one more row.  Line
\* 195 stores the returned schedule and line 198 ends the run: the tables and
\* the summary, locals of main, are gone, and the script runs again from the
\* top (update_saldo at line 128, then the engine at line 201).  The outcome
\* of the last call is kept for the comparison.
AddAporte ==
    /\ pc = "done"
    /\ Len(aportes) < MaxAportes
    /\ \E a \in AporteInputs : aportes' = Append(aportes, a)
    /\ prev_resultados' = resultados
    /\ resultados' = NotRun
    /\ resumo' = NotRun
    /\ pc' = "input"
    /\ UNCHANGED <<saldo_total, saldos_devedores, taxa_juros_anual, prazo_meses,
                   widget_saldo, editor_rows, aportes_rows, in_session>>

EngineNext == SplitBalance \/ Simulate \/ AddAporte

Spec == EngineInit /\ [][EngineNext]_vars

----------------------------------------------------------------------------
(* Specification of the session: the script of main runs from the top to the *)
(* bottom after every interaction of the user (Streamlit), st.session_state  *)
(* survives the runs, the locals of a run do not.  A widget keeps the value  *)
(* the user entered from one run to the next.  A data_editor is identified   *)
(* by the frame and the column configuration it is given: given another      *)
(* frame it is a new widget, without the edits made of the old frame.        *)
(* The first run has the rate 7.5 and the term 120 of lines 129-130, whose   *)
(* divisions round: the engine is called, its tables are Rounded.            *)

\* line 38
DefaultTotal == 450000

\* line 27-29: entrada of the default payers
DefaultEntrada == 50000

\* line 129: value=7.5
DefaultTaxa == <<15, 2>>

\* line 130: value=120
DefaultPrazo == 120

\* lines 26-30
default_payers ==
    <<Payer("Pagador 1", QInt(DefaultEntrada), QInt(0)),
      Payer("Pagador 2", QInt(DefaultEntrada), QInt(0)),
      Payer("Pagador 3", QInt(DefaultEntrada), QInt(0))>>

\* lines 32-36
aportes_default ==
    <<Aporte(6, "Pagador 1", QInt(10000)),
      Aporte(12, "Pagador 2", QInt(20000)),
      Aporte(24, "Pagador 3", QInt(30000))>>

MaxRows == 3

MaxAporteRows == 3

\* what the user types
TotalInputs == {QInt(0), QInt(DefaultTotal), QInt(2 * DefaultTotal)}

NameInputs == {"", "Pagador 4"}

EntradaInputs == {QInt(0), QInt(DefaultEntrada)}

SaldoInputs == {QInt(1)}

SessionAporteInputs == {Aporte(2, "Pagador 1", QInt(10000))}

\* 75 / 100 / 12 is the double 0.0625
SessionTaxas == {DefaultTaxa, QInt(75)}

SessionTerms == {DefaultPrazo, 4}

SessionInit ==
    /\ saldo_total = QInt(DefaultTotal)
    /\ saldos_devedores = <<>>
    /\ aportes = <<>>
    /\ in_session = FALSE
    /\ taxa_juros_anual = DefaultTaxa
    /\ prazo_meses = DefaultPrazo
    /\ resultados = NotRun
    /\ resumo = NotRun
    /\ prev_resultados = NotRun
    /\ pc = "top"
    /\ widget_saldo = QInt(DefaultTotal)
    /\ editor_rows = NoEdit
    /\ aportes_rows = NoEdit

\* The start of a script run.  Line 38 runs again at the top of every run;
\* resultados and the summary are locals of main, gone with the last run.
ScriptTop ==
    /\ pc = "top"
    /\ saldo_total' = QInt(DefaultTotal)
    /\ resultados' = NotRun
    /\ resumo' = NotRun
    /\ pc' = "init_session"
    /\ UNCHANGED <<saldos_devedores, taxa_juros_anual, prazo_meses, aportes,
                   prev_resultados, widget_saldo, editor_rows, aportes_rows,
                   in_session>>

\* lines 115-119
InitSession ==
    /\ pc = "init_session"
    /\ IF ~in_session
       THEN /\ saldos_devedores' = update_saldo(default_payers, saldo_total)
            /\ aportes' = aportes_default
            /\ in_session' = TRUE
       ELSE UNCHANGED <<saldos_devedores, aportes, in_session>>
    /\ pc' = "loan_inputs"
    /\ UNCHANGED <<saldo_total, taxa_juros_anual, prazo_meses, resultados,
                   resumo, prev_resultados, widget_saldo, editor_rows, aportes_rows>>

\* line 126: if saldo_updated (a float is falsy when it is 0; NaN is truthy)
truthy(v) == isnan(v) \/ v[1] # 0

\* lines 123-130: taxa_juros_anual and prazo_meses are the values the two
\* widgets of lines 129-130 hold
LoanInputs ==
    /\ pc = "loan_inputs"
    /\ IF truthy(widget_saldo)
       THEN /\ saldo_total' = widget_saldo
            /\ saldos_devedores' = update_saldo(saldos_devedores, widget_saldo)
       ELSE UNCHANGED <<saldo_total, saldos_devedores>>
    /\ pc' = "editor"
    /\ UNCHANGED <<taxa_juros_anual, prazo_meses, aportes, resultados, resumo,
                   prev_resultados, widget_saldo, editor_rows, aportes_rows,
                   in_session>>

\* lines 168-172: the rows with a payer name, as Payer objects
named_rows(rows) == SelectSeq(rows, LAMBDA e : e.payer # "")

\* lines 156-165: the editor holds edits of the frame it is given now
live_edit(w, frame) == w.edited /\ w.base = frame

\* lines 159-165: what the payer editor returns
entradas_df == IF live_edit(editor_rows, saldos_devedores) THEN editor_rows.rows
               ELSE saldos_devedores

\* lines 156-174.  Edits made of another frame are gone.  When the returned
\* frame differs from the ledger, the ledger is recomputed from the rows with
\* a name and the script is run again (line 174); the editor keeps its edits
\* for as long as the ledger, the frame it is given, stays the same.  The run
\* that line 174 ends has not reached the editor of extra payments (line
\* 187): whether a widget that a run does not render keeps the edits it
\* holds is Streamlit's choice, and both outcomes are followed.
Editor ==
    /\ pc = "editor"
    /\ IF entradas_df # saldos_devedores
       THEN /\ saldos_devedores' = update_saldo(named_rows(entradas_df), saldo_total)
            /\ aportes_rows' \in {aportes_rows, NoEdit}
            /\ pc' = "top"
            /\ UNCHANGED editor_rows
       ELSE /\ pc' = "aportes_editor"
            /\ editor_rows' = IF live_edit(editor_rows, saldos_devedores)
                              THEN editor_rows ELSE NoEdit
            /\ UNCHANGED <<saldos_devedores, aportes_rows>>
    /\ UNCHANGED <<saldo_total, taxa_juros_anual, prazo_meses, aportes, resultados,
                   resumo, prev_resultados, widget_saldo, in_session>>

\* line 186: the frame of an empty schedule has no columns, so a row the
\* user adds to it is a record without fields
EmptyRow == <<>>

has_empty_row(df) == \E i \in 1..Len(df) : DOMAIN df[i] = {}

\* lines 179-186: what the editor of extra payments is given, the frame of
\* the schedule and the payer names as options of the column "pagador"
aportes_frame ==
    <<aportes, [i \in 1..Len(saldos_devedores) |-> saldos_devedores[i].payer]>>

\* lines 187-192: what the editor of extra payments returns
shown_aportes == IF live_edit(aportes_rows, aportes_frame) THEN aportes_rows.rows
                 ELSE aportes

\* lines 176-198.  The frame of an empty ledger has no column "payer": line 182
\* raises KeyError and the run ends before the editor is rendered (line 187,
\* its edits kept or lost as in Editor) and before the engine is called.  Otherwise
\* the editor returns the schedule with the edits it holds; a changed schedule
\* is stored (line 195) and the script is run again (line 198).  A row without
\* the fields of an Aporte makes line 196 raise: nothing is stored, the run
\* ends before the engine is called and the editor keeps the row.
AportesEditor ==
    /\ pc = "aportes_editor"
    /\ IF saldos_devedores = <<>>
       THEN /\ pc' = "idle"
            /\ aportes_rows' \in {aportes_rows, NoEdit}
            /\ UNCHANGED aportes
       ELSE LET aportes_modified == shown_aportes
            IN  IF has_empty_row(aportes_modified)
                THEN /\ pc' = "idle"
                     /\ UNCHANGED <<aportes, aportes_rows>>
                ELSE IF aportes_modified # aportes
                THEN /\ aportes' = aportes_modified
                     /\ aportes_rows' = NoEdit
                     /\ pc' = "top"
                ELSE /\ pc' = "engine"
                     /\ aportes_rows' = IF live_edit(aportes_rows, aportes_frame)
                                        THEN aportes_rows ELSE NoEdit
                     /\ UNCHANGED aportes
    /\ UNCHANGED <<saldo_total, saldos_devedores, taxa_juros_anual, prazo_meses,
                   resultados, resumo, prev_resultados, widget_saldo, editor_rows,
                   in_session>>

\* lines 201-235.  Where a division of the call rounds, the tables and the
\* summary are computed by the code and not held by the model.
EngineCall ==
    /\ pc = "engine"
    /\ IF ExactCall(saldos_devedores, taxa_juros_anual, prazo_meses)
       THEN Run(aportes)
       ELSE /\ resultados' = Rounded
            /\ resumo' = Rounded
    /\ pc' = "idle"
    /\ UNCHANGED <<saldo_total, saldos_devedores, taxa_juros_anual, prazo_meses,
                   aportes, prev_resultados, widget_saldo, editor_rows, aportes_rows,
                   in_session>>

\* the total update_saldo divides in the next run: line 38 or line 127
EffectiveTotal(w) == IF truthy(w) THEN w ELSE QInt(DefaultTotal)

\* The user enters a total balance: the script runs again.
UserSetsTotal ==
    /\ pc = "idle"
    /\ \E v \in TotalInputs :
          /\ ExactSplit(saldos_devedores, EffectiveTotal(v))
          /\ widget_saldo' = v
    /\ pc' = "top"
    /\ UNCHANGED <<saldo_total, saldos_devedores, taxa_juros_anual, prazo_meses,
                   aportes, resultados, resumo, prev_resultados, editor_rows,
                   aportes_rows, in_session>>

\* The user enters an annual rate (line 129): the script runs again.
UserSetsTaxa ==
    /\ pc = "idle"
    /\ taxa_juros_anual' \in SessionTaxas
    /\ pc' = "top"
    /\ UNCHANGED <<saldo_total, saldos_devedores, prazo_meses, aportes, resultados,
                   resumo, prev_resultados, widget_saldo, editor_rows, aportes_rows,
                   in_session>>

\* The user enters a term (line 130): the script runs again.
UserSetsPrazo ==
    /\ pc = "idle"
    /\ prazo_meses' \in SessionTerms
    /\ pc' = "top"
    /\ UNCHANGED <<saldo_total, saldos_devedores, taxa_juros_anual, aportes,
                   resultados, resumo, prev_resultados, widget_saldo, editor_rows,
                   aportes_rows, in_session>>

RemoveAt(seq, i) == SubSeq(seq, 1, i - 1) \o SubSeq(seq, i + 1, Len(seq))

\* The frames one edit of the user makes of the frame the payer editor shows.
\* The frame of an empty ledger has no columns: no payer can be entered.
EditedFrames(df) ==
    {RemoveAt(df, i) : i \in 1..Len(df)}
    \cup {[df EXCEPT ![i].entrada = e] : i \in 1..Len(df), e \in EntradaInputs}
    \cup {[df EXCEPT ![i].saldo_devedor = v] : i \in 1..Len(df), v \in SaldoInputs}
    \cup {[df EXCEPT ![i].payer = n] : i \in 1..Len(df), n \in NameInputs}
    \cup (IF df # <<>> /\ Len(df) < MaxRows
          THEN {Append(df, Payer(n, e, QInt(0))) : n \in NameInputs, e \in EntradaInputs}
          ELSE {})

\* The user edits the payer table: the script runs again.
UserEditsRows ==
    /\ pc = "idle"
    /\ \E df \in EditedFrames(entradas_df) :
          /\ ExactSplit(named_rows(df), EffectiveTotal(widget_saldo))
          /\ editor_rows' = [edited |-> TRUE, base |-> saldos_devedores, rows |-> df]
    /\ pc' = "top"
    /\ UNCHANGED <<saldo_total, saldos_devedores, taxa_juros_anual, prazo_meses,
                   aportes, resultados, resumo, prev_resultados, widget_saldo,
                   aportes_rows, in_session>>

\* The schedules one edit of the user (the last row deleted, or a row added)
\* makes of the schedule the editor shows.  Rows added to a schedule with
\* columns are Aportes; the frame of an empty schedule has no columns and
\* takes rows without fields only.
EditedAportes(df) ==
    (IF df = <<>> THEN {} ELSE {RemoveAt(df, Len(df))})
    \cup (IF Len(df) >= MaxAporteRows THEN {}
          ELSE IF aportes = <<>> THEN {Append(df, EmptyRow)}
          ELSE {Append(df, a) : a \in SessionAporteInputs})

\* The user edits the table of extra payments (shown once line 182 has
\* passed): the script runs again.
UserEditsAportes ==
    /\ pc = "idle"
    /\ saldos_devedores # <<>>
    /\ \E df \in EditedAportes(shown_aportes) :
          aportes_rows' = [edited |-> TRUE, base |-> aportes_frame, rows |-> df]
    /\ pc' = "top"
    /\ UNCHANGED <<saldo_total, saldos_devedores, taxa_juros_anual, prazo_meses,
                   aportes, resultados, resumo, prev_resultados, widget_saldo,
                   editor_rows, in_session>>

SessionNext ==
    \/ ScriptTop \/ InitSession \/ LoanInputs \/ Editor \/ AportesEditor
    \/ EngineCall \/ UserSetsTotal \/ UserSetsTaxa \/ UserSetsPrazo
    \/ UserEditsRows \/ UserEditsAportes

SpecSession == SessionInit /\ [][SessionNext]_vars

----------------------------------------------------------------------------
(* Properties of the simulation (specification Spec) *)

Names == {saldos_devedores[i].payer : i \in 1..Len(saldos_devedores)}

\* the payer whose table the result holds under the name
PayerOf(name) == saldos_devedores[last_index(saldos_devedores, name)]

Returned == pc = "done" /\ resultados.status = "ok"

\* the balance a row of month m starts from
SaldoBefore(rows, name, m) ==
    IF m = 1 THEN PayerOf(name).saldo_devedor ELSE rows[m - 1].SaldoDevedor

\* the last AddAporte: the extra payment added, the schedule before it
Added == aportes[Len(aportes)]

Before == SubSeq(aportes, 1, Len(aportes) - 1)

Compared ==
    /\ Returned
    /\ prev_resultados.status = "ok"
    /\ aportes # <<>>

\* C1: once the reported balance of a payer is 0 at month M, it is 0 at every
\* later month of the term, for every starting balance and schedule.
C1_ClampIdempotence ==
    Returned =>
        \A name \in DOMAIN resultados.tables :
            LET rows == resultados.tables[name]
            IN  \A M \in 1..Len(rows) : \A k \in (M + 1)..Len(rows) :
                    rows[M].SaldoDevedor = QInt(0) => rows[k].SaldoDevedor = QInt(0)

\* C2: with an empty schedule the reported balance never increases from one
\* month to the next, for every starting balance update_saldo produced.
C2_Monotonicity ==
    (Returned /\ aportes = <<>>) =>
        \A name \in DOMAIN resultados.tables :
            LET rows == resultados.tables[name]
            IN  \A m \in 2..Len(rows) :
                    QLe(rows[m].SaldoDevedor, rows[m - 1].SaldoDevedor)

\* C3: a call with term_months <= 0 ends in an error: it never returns a result
\* (stated for a ledger with a payer, where the returned tables are empty).
C3_NonPositiveTermRejected ==
    (pc = "done" /\ saldos_devedores # <<>> /\ prazo_meses <= 0) =>
        resultados.status # "ok"

\* C4: with zero payers update_saldo returns no ledger and the engine returns
\* no mapping: the run gets past neither.
C4_ZeroPayersRejected ==
    saldos_devedores = <<>> => (pc # "split" /\ ~Returned)

\* C5: adding one extra payment (month m of the term, payer P of the ledger,
\* amount X a number) lowers P's balance of month m before the clamp by exactly
\* X; where the run without it reports a positive balance at m the run with it
\* reports that balance minus X, clamped; the rows of P before m and the rows
\* of all other payers are the same in both runs.
C5_ExtraPaymentEffect ==
    (/\ Compared
     /\ Added.pagador \in Names
     /\ ~isnan(Added.valor)
     /\ Added.mes \in 1..prazo_meses) =>
        LET P   == Added.pagador
            m   == Added.mes
            new == resultados.tables[P]
            old == prev_resultados.tables[P]
        IN  /\ saldo_antes_clamp(SaldoBefore(new, P, m), new[m].Amortizacao,
                                 aportes, m, PayerOf(P))
               = QSub(saldo_antes_clamp(SaldoBefore(old, P, m), old[m].Amortizacao,
                                        Before, m, PayerOf(P)), Added.valor)
            /\ QGt0(old[m].SaldoDevedor) =>
                  new[m].SaldoDevedor =
                      (IF QLt0(QSub(old[m].SaldoDevedor, Added.valor)) THEN QInt(0)
                       ELSE QSub(old[m].SaldoDevedor, Added.valor))
            /\ SubSeq(new, 1, m - 1) = SubSeq(old, 1, m - 1)
            /\ \A name \in Names \ {P} :
                  resultados.tables[name] = prev_resultados.tables[name]

C5_Witness ==
    /\ Compared
    /\ Added.pagador \in Names
    /\ ~isnan(Added.valor)
    /\ Added.mes \in 2..prazo_meses
    /\ Names \ {Added.pagador} # {}
    /\ QGt0(prev_resultados.tables[Added.pagador][Added.mes].SaldoDevedor)
    /\ resultados.tables[Added.pagador][Added.mes].SaldoDevedor
          # prev_resultados.tables[Added.pagador][Added.mes].SaldoDevedor

\* C6: with an empty schedule, a payer with starting balance B >= 0 and a term
\* T >= 1 has T rows, amortization B / T on every row, balance B - k * (B / T)
\* at month k, and balance 0 on row T.
C6_SacSchedule ==
    (Returned /\ aportes = <<>> /\ prazo_meses >= 1) =>
        \A name \in Names :
            LET B    == PayerOf(name).saldo_devedor
                rows == resultados.tables[name]
            IN  ~QLt0(B) =>
                   /\ Len(rows) = prazo_meses
                   /\ \A k \in 1..prazo_meses :
                         /\ rows[k].Mes_i = k
                         /\ rows[k].Amortizacao = QDiv(B, QInt(prazo_meses))
                         /\ rows[k].SaldoDevedor =
                               QSub(B, QMul(QInt(k), QDiv(B, QInt(prazo_meses))))
                   /\ rows[prazo_meses].SaldoDevedor = QInt(0)

C6_Witness ==
    /\ Returned
    /\ aportes = <<>>
    /\ prazo_meses >= 3
    /\ \E name \in Names :
          /\ QGt0(PayerOf(name).saldo_devedor)
          /\ QGt0(resultados.tables[name][prazo_meses - 1].SaldoDevedor)
          /\ resultados.tables[name][prazo_meses].SaldoDevedor = QInt(0)

\* C7: in every row of month m the interest is the monthly rate times the
\* balance reported for month m - 1 (the starting balance for m = 1) and the
\* installment is amortization plus interest; an extra payment dated month m
\* changes neither the interest nor the installment of the months up to m.
C7_RowOrdering ==
    /\ Returned =>
          \A name \in DOMAIN resultados.tables :
              LET rows == resultados.tables[name]
              IN  \A m \in 1..Len(rows) :
                     /\ rows[m].Juros = QMul(taxa_juros_mensal(taxa_juros_anual),
                                             SaldoBefore(rows, name, m))
                     /\ rows[m].Prestacao = QAdd(rows[m].Amortizacao, rows[m].Juros)
    /\ Compared =>
          \A name \in DOMAIN resultados.tables :
              LET new == resultados.tables[name]
                  old == prev_resultados.tables[name]
              IN  \A k \in 1..Len(new) :
                     k <= Added.mes =>
                        /\ new[k].Juros = old[k].Juros
                        /\ new[k].Prestacao = old[k].Prestacao

C7_Witness ==
    /\ Compared
    /\ taxa_juros_anual # QInt(0)
    /\ Added.mes \in 1..(prazo_meses - 1)
    /\ Added.pagador \in Names
    /\ ~isnan(Added.valor)
    /\ LET new == resultados.tables[Added.pagador]
           old == prev_resultados.tables[Added.pagador]
       IN  /\ QGt0(new[Added.mes].Juros)
           /\ new[Added.mes].SaldoDevedor # old[Added.mes].SaldoDevedor
           /\ new[Added.mes + 1].Juros # old[Added.mes + 1].Juros

\* C8: the last active month of a payer is the greatest month whose balance is
\* positive; when no month has a positive balance the summary does not fail
\* and the value it hands to the label computation is a month, not the
\* maximum of an empty selection.
C8_LastActiveMonth ==
    (Returned /\ resultados.tables # <<>> /\ prazo_meses >= 1) =>
        /\ resumo.status = "ok"
        /\ \A name \in DOMAIN resultados.tables :
              LET rows == resultados.tables[name]
                  pos  == {i \in 1..Len(rows) : QGt0(rows[i].SaldoDevedor)}
                  u    == resumo.ultimo[name]
              IN  /\ ~isnan(u)
                  /\ pos # {} => (u[1] \in pos /\ \A i \in pos : i <= u[1])

\* C9: adding an extra payment whose payer name is no name of the ledger
\* changes nothing: the call returns the same mapping, and no error.
C9_UnmatchedAporteNoOp ==
    (/\ pc = "done"
     /\ aportes # <<>>
     /\ Added.pagador \notin Names) =>
        resultados = prev_resultados

C9_Witness ==
    /\ Compared
    /\ Added.pagador \notin Names
    /\ ~isnan(Added.valor)
    /\ Added.valor # QInt(0)
    /\ Added.mes \in 1..prazo_meses
    /\ \E name \in Names : QGt0(resultados.tables[name][Added.mes].SaldoDevedor)

----------------------------------------------------------------------------
(* Property of the session (specification SpecSession) *)

\* C10: when calculate_individual_sac_tables is invoked, every payer of the
\* session ledger has saldo_devedor = (the total the user entered / the
\* number of payers) - entrada.
C10_LedgerConsistent ==
    pc = "engine" =>
        \A i \in 1..Len(saldos_devedores) :
            saldos_devedores[i].saldo_devedor =
                QSub(QDiv(widget_saldo, QInt(Len(saldos_devedores))),
                     saldos_devedores[i].entrada)

====
